---- MODULE Spec2Model ----
(***************************************************************************)
(* A model of src/src/color_generators.py: the HSL -> RGB -> hex converter,*)
(* the five hue strategies, and the Color facade.                          *)
(*                                                                         *)
(* Python's float is IEEE-754 binary64.  The program's results depend on   *)
(* its rounding (ColorWheel with n = 10 gives index 5 the hue 240, where   *)
(* real arithmetic gives 180), so floats are modelled bit-exactly: a float *)
(* is a sign, a 53-bit significand and an exponent, and every operation    *)
(* rounds its exact result to nearest, ties to even.  The values the       *)
(* program computes here stay far from overflow and from the subnormal     *)
(* range, so the exponent is left unbounded; the sign of zero, which no    *)
(* result depends on, is not kept.                                         *)
(***************************************************************************)
EXTENDS Integers, Sequences, FiniteSets, TLC

\* F of the value of v0: a local variable, assigned once and then read
With(v0, F(_)) == CHOOSE r \in { F(v) : v \in {v0} } : TRUE
With2(v0, w0, F(_, _)) == CHOOSE r \in { F(v, w) : v \in {v0}, w \in {w0} } : TRUE

\* ------------------------------------------------------------------------
\* Naturals of any size (TLC's integers are 32 bits wide): little-endian
\* sequences of limbs in base 2^14, without leading zero limbs.
\* ------------------------------------------------------------------------
Limb == 2^14

Pow2(k) == 2^k

RECURSIVE BigTrim(_)
BigTrim(a) ==
  IF a = <<>> THEN a
  ELSE IF a[Len(a)] = 0 THEN BigTrim(SubSeq(a, 1, Len(a) - 1)) ELSE a

RECURSIVE BigFromNat(_)
BigFromNat(k) == IF k = 0 THEN <<>> ELSE <<k % Limb>> \o BigFromNat(k \div Limb)

RECURSIVE BigToNat(_)
BigToNat(a) == IF a = <<>> THEN 0 ELSE a[1] + Limb * BigToNat(Tail(a))

BigLimb(a, j) == IF j <= Len(a) THEN a[j] ELSE 0

BigAdd(a, b) ==
  LET n == IF Len(a) > Len(b) THEN Len(a) ELSE Len(b)
      RECURSIVE go(_, _)
      go(j, c) ==
        IF j > n THEN (IF c = 0 THEN <<>> ELSE <<c>>)
        ELSE LET s == BigLimb(a, j) + BigLimb(b, j) + c
             IN  <<s % Limb>> \o go(j + 1, s \div Limb)
  IN  go(1, 0)

\* a - b, for a >= b
BigSub(a, b) ==
  LET RECURSIVE go(_, _)
      go(j, c) ==
        IF j > Len(a) THEN <<>>
        ELSE LET s == a[j] - BigLimb(b, j) - c
             IN  IF s < 0 THEN <<s + Limb>> \o go(j + 1, 1)
                          ELSE <<s>> \o go(j + 1, 0)
  IN  BigTrim(go(1, 0))

\* -1, 0, 1 as a < b, a = b, a > b
BigCmp(a, b) ==
  LET RECURSIVE go(_)
      go(j) ==
        IF j = 0 THEN 0
        ELSE IF a[j] < b[j] THEN -1
        ELSE IF a[j] > b[j] THEN 1
        ELSE go(j - 1)
  IN  IF Len(a) < Len(b) THEN -1
      ELSE IF Len(a) > Len(b) THEN 1
      ELSE go(Len(a))

\* a * k, for 0 <= k < Limb
BigMulSmall(a, k) ==
  LET RECURSIVE go(_, _)
      go(j, c) ==
        IF j > Len(a) THEN (IF c = 0 THEN <<>> ELSE <<c>>)
        ELSE LET s == a[j] * k + c
             IN  <<s % Limb>> \o go(j + 1, s \div Limb)
  IN  IF k = 0 THEN <<>> ELSE go(1, 0)

BigShlLimbs(a, j) == IF a = <<>> THEN a ELSE [x \in 1..j |-> 0] \o a

BigMul(a, b) ==
  LET RECURSIVE go(_)
      go(j) ==
        IF j > Len(b) THEN <<>>
        ELSE BigAdd(BigShlLimbs(BigMulSmall(a, b[j]), j - 1), go(j + 1))
  IN  go(1)

\* a * 2^k
BigShl(a, k) == BigShlLimbs(BigMulSmall(a, Pow2(k % 14)), k \div 14)

\* floor(a / 2^k)
BigShr(a, k) ==
  LET drop == k \div 14
      d    == Pow2(k % 14)
      rest == IF drop >= Len(a) THEN <<>> ELSE SubSeq(a, drop + 1, Len(a))
      n    == Len(rest)
  IN  BigTrim([j \in 1..n |->
                 (rest[j] \div d) + (IF j < n THEN (rest[j + 1] % d) * (Limb \div d) ELSE 0)])

RECURSIVE SmallBitLen(_)
SmallBitLen(k) == IF k = 0 THEN 0 ELSE 1 + SmallBitLen(k \div 2)

BigBitLen(a) == IF a = <<>> THEN 0 ELSE 14 * (Len(a) - 1) + SmallBitLen(a[Len(a)])

BigOdd(a) == a # <<>> /\ a[1] % 2 = 1

BigOne == <<1>>

\* ------------------------------------------------------------------------
\* binary64.  A float is zero, or [sgn |-> 1 or -1, man |-> the 53-bit
\* significand (2^52 <= man < 2^53), exp |-> e] with value sgn * man * 2^e.
\* ------------------------------------------------------------------------
MantBits == 53

FZero == [sgn |-> 0, man |-> <<>>, exp |-> 0]

\* bit k of a (bit 0 the lowest)
BigBit(a, k) == (BigLimb(a, (k \div 14) + 1) \div Pow2(k % 14)) % 2

\* whether a mod 2^k # 0
BigLowNonzero(a, k) ==
  \/ \E j \in 1..(k \div 14) : BigLimb(a, j) # 0
  \/ BigLimb(a, (k \div 14) + 1) % Pow2(k % 14) # 0

\* sgn * (M * 2^e, plus a nonzero amount below M's last bit when sticky),
\* rounded to nearest, ties to even
FRound(sgn, M, e, sticky) ==
  LET L == BigBitLen(M) IN
  IF M = <<>> THEN FZero
  ELSE IF L <= MantBits
    THEN [sgn |-> sgn, man |-> BigShl(M, MantBits - L), exp |-> e - (MantBits - L)]
  ELSE
    LET k    == L - MantBits
        half == BigBit(M, k - 1) = 1
        more == sticky \/ BigLowNonzero(M, k - 1)
    IN  With(BigShr(M, k), LAMBDA q :
        With(IF half /\ (more \/ BigOdd(q)) THEN BigAdd(q, BigOne) ELSE q, LAMBDA q1 :
          IF BigBitLen(q1) > MantBits
            THEN [sgn |-> sgn, man |-> BigShr(q1, 1), exp |-> e + k + 1]
            ELSE [sgn |-> sgn, man |-> q1, exp |-> e + k]))

\* int -> float (exact below 2^53)
FromInt(k) ==
  IF k = 0 THEN FZero
  ELSE IF k < 0 THEN FRound(-1, BigFromNat(-k), 0, FALSE)
  ELSE FRound(1, BigFromNat(k), 0, FALSE)

FNeg(x) == [x EXCEPT !.sgn = -x.sgn]

\* abs()
FAbs(x) == [x EXCEPT !.sgn = IF x.sgn = 0 THEN 0 ELSE 1]

\* -1, 0, 1 as |x| < |y|, |x| = |y|, |x| > |y|
FMagCmp(x, y) ==
  IF x.sgn = 0 THEN (IF y.sgn = 0 THEN 0 ELSE -1)
  ELSE IF y.sgn = 0 THEN 1
  ELSE IF x.exp < y.exp THEN -1
  ELSE IF x.exp > y.exp THEN 1
  ELSE BigCmp(x.man, y.man)

FCmp(x, y) ==
  IF x.sgn # y.sgn THEN (IF x.sgn < y.sgn THEN -1 ELSE 1)
  ELSE IF x.sgn = 0 THEN 0
  ELSE x.sgn * FMagCmp(x, y)

FLt(x, y) == FCmp(x, y) = -1
FLe(x, y) == FCmp(x, y) # 1

\* x + y
FAdd(x, y) ==
  IF x.sgn = 0 THEN y
  ELSE IF y.sgn = 0 THEN x
  ELSE IF x.exp - y.exp > 64 THEN x
  ELSE IF y.exp - x.exp > 64 THEN y
  ELSE
    LET e == IF x.exp < y.exp THEN x.exp ELSE y.exp
    IN  With2(BigShl(x.man, x.exp - e), BigShl(y.man, y.exp - e), LAMBDA A, B :
          IF x.sgn = y.sgn THEN FRound(x.sgn, BigAdd(A, B), e, FALSE)
          ELSE With(BigCmp(A, B), LAMBDA c :
            IF c = 0 THEN FZero
            ELSE IF c = 1 THEN FRound(x.sgn, BigSub(A, B), e, FALSE)
            ELSE FRound(y.sgn, BigSub(B, A), e, FALSE)))

FSub(x, y) == FAdd(x, FNeg(y))

\* x * y
FMul(x, y) ==
  IF x.sgn = 0 \/ y.sgn = 0 THEN FZero
  ELSE FRound(x.sgn * y.sgn, BigMul(x.man, y.man), x.exp + y.exp, FALSE)

\* One step of restoring division by the significand ym: p = <<q, r>> becomes
\* <<2q + 1, 2r - ym>> when 2r >= ym, and <<2q, 2r>> otherwise
DivStep(p, ym) ==
  With2(BigMulSmall(p[1], 2), BigMulSmall(p[2], 2), LAMBDA q2, r2 :
    IF BigCmp(r2, ym) >= 0
      THEN <<BigAdd(q2, BigOne), BigSub(r2, ym)>>
      ELSE <<q2, r2>>)

\* `steps` steps from p; once the remainder is zero the rest of the quotient is
RECURSIVE DivSteps(_, _, _)
DivSteps(p, ym, steps) ==
  IF steps = 0 THEN p
  ELSE IF p[2] = <<>> THEN <<BigShl(p[1], steps), <<>>>>
  ELSE DivSteps(DivStep(p, ym), ym, steps - 1)

\* <<q, r>> with xm * 2^steps = q * ym + r and r < ym, for xm < 2 * ym
BigDivMod(xm, ym, steps) ==
  DivSteps(IF BigCmp(xm, ym) >= 0 THEN <<BigOne, BigSub(xm, ym)>> ELSE <<(<<>>), xm>>,
           ym, steps)

\* <<floor(a / d), a mod d>>, for 0 < d < Limb
BigDivSmall(a, d) ==
  LET RECURSIVE go(_, _)
      go(j, r) ==
        IF j = 0 THEN <<(<<>>), r>>
        ELSE With(r * Limb + a[j], LAMBDA cur :
             With(go(j - 1, cur % d), LAMBDA rest :
               <<Append(rest[1], cur \div d), rest[2]>>))
  IN  With(go(Len(a), 0), LAMBDA qr : <<BigTrim(qr[1]), qr[2]>>)

\* a significand whose low 39 bits are zero is d * 2^39 with d < 2^14
ShortDivisor(ym) == ym[1] = 0 /\ ym[2] = 0 /\ ym[3] % Pow2(11) = 0

\* x / y, for y # 0: the exact quotient to 55 bits or more and whether
\* anything is left below them, then rounding
FDiv(x, y) ==
  IF x.sgn = 0 THEN FZero
  ELSE IF ShortDivisor(y.man)
    THEN With(BigDivSmall(BigShl(x.man, 16), (y.man[4] * Limb + y.man[3]) \div Pow2(11)),
              LAMBDA qr : FRound(x.sgn * y.sgn, qr[1], x.exp - y.exp - 39 - 16, qr[2] # 0))
    ELSE With(BigDivMod(x.man, y.man, 56),
              LAMBDA qr : FRound(x.sgn * y.sgn, qr[1], x.exp - y.exp - 56, qr[2] # <<>>))

\* C's fmod(x, y), for y # 0: the remainder of |x| by |y| with x's sign; exact
FFmod(x, y) ==
  IF FMagCmp(x, y) = -1 THEN x
  ELSE FRound(x.sgn, BigDivMod(x.man, y.man, x.exp - y.exp)[2], y.exp, FALSE)

\* Python's float x % y (float_rem): fmod, then moved to the sign of y
FMod(x, y) ==
  With(FFmod(x, y), LAMBDA mod :
    IF mod.sgn # 0 /\ mod.sgn # y.sgn THEN FAdd(mod, y) ELSE mod)

\* int(x): truncation towards zero
FTrunc(x) ==
  IF x.sgn = 0 THEN 0
  ELSE IF x.exp >= 0 THEN x.sgn * BigToNat(BigShl(x.man, x.exp))
  ELSE IF -x.exp > MantBits THEN 0
  ELSE x.sgn * BigToNat(BigShr(x.man, -x.exp))

\* round(x): to the nearest integer, ties to the even one
PyRound(x) ==
  IF x.sgn = 0 THEN 0
  ELSE IF x.exp >= 0 THEN x.sgn * BigToNat(BigShl(x.man, x.exp))
  ELSE IF -x.exp > MantBits + 1 THEN 0
  ELSE
    LET k    == -x.exp
        half == BigBit(x.man, k - 1) = 1
    IN  With(BigShr(x.man, k), LAMBDA q :
          x.sgn * (BigToNat(q)
                   + (IF half /\ (BigLowNonzero(x.man, k - 1) \/ BigOdd(q)) THEN 1 ELSE 0)))

\* ------------------------------------------------------------------------
\* The numbers the program writes.  An int is carried as the float of the same
\* value: every int here is far below 2^53, where the two agree exactly.
\* ------------------------------------------------------------------------
F0   == FZero
F1   == FromInt(1)
F2   == FromInt(2)
F6   == FromInt(6)
F60  == FromInt(60)
F100 == FromInt(100)
F120 == FromInt(120)
F180 == FromInt(180)
F240 == FromInt(240)
F255 == FromInt(255)
F300 == FromInt(300)
F360 == FromInt(360)

\* a decimal literal num/den (den a power of ten): the nearest float
Dec(num, den) == FDiv(FromInt(num), FromInt(den))

D0_0075 == Dec(75, 10000)
D0_01   == Dec(1, 100)
D0_015  == Dec(15, 1000)
D0_02   == Dec(2, 100)
D0_1    == Dec(1, 10)
D0_3    == Dec(3, 10)
D0_8    == Dec(8, 10)

\* ------------------------------------------------------------------------
\* The converter
\* ------------------------------------------------------------------------

\* The sector test of hsl_to_rgb: the (r, g, b) before m is added
Sector(hue, c, x) ==
  IF FLt(hue, F60) THEN <<c, x, F0>>
  ELSE IF FLt(hue, F120) THEN <<x, c, F0>>
  ELSE IF FLt(hue, F180) THEN <<F0, c, x>>
  ELSE IF FLt(hue, F240) THEN <<F0, x, c>>
  ELSE IF FLt(hue, F300) THEN <<x, F0, c>>
  ELSE <<c, F0, x>>

\* Channel with a scale of 256: a full channel comes out as 256
Channel_256(v, m) == PyRound(FMul(FAdd(v, m), FromInt(256)))

\* Channel with int() in the place of round()
Channel_truncated(v, m) == FTrunc(FMul(FAdd(v, m), F255))

\* round((v + m) * 255)
Channel(v, m) == PyRound(FMul(FAdd(v, m), F255))

hsl_to_rgb(hue0, saturation, lightness) ==
  With(FMod(hue0, F360), LAMBDA hue :
  With(FMul(FSub(F1, FAbs(FSub(FMul(F2, lightness), F1))), saturation), LAMBDA c :
  With(FMul(c, FSub(F1, FAbs(FSub(FMod(FDiv(hue, F60), F2), F1)))), LAMBDA x :
  With(FSub(lightness, FDiv(c, F2)), LAMBDA m :
  With(Sector(hue, c, x), LAMBDA rgb :
    <<Channel(rgb[1], m), Channel(rgb[2], m), Channel(rgb[3], m)>>)))))

HexDigits == <<"0", "1", "2", "3", "4", "5", "6", "7",
               "8", "9", "a", "b", "c", "d", "e", "f">>

\* the digits of format(v, "x"), for v >= 0
RECURSIVE HexOf(_)
HexOf(v) ==
  IF v < 16 THEN <<HexDigits[v + 1]>>
  ELSE HexOf(v \div 16) \o <<HexDigits[(v % 16) + 1]>>

\* format(v, "02x"): a sign for a negative v, then the digits, zero-padded to
\* a width of two characters
Format02x(v) ==
  IF v < 0 THEN <<"-">> \o HexOf(-v)
  ELSE IF v < 16 THEN <<"0">> \o HexOf(v)
  ELSE HexOf(v)

\* A str is the sequence of its characters.
rgb_to_hex(r, g, b) == <<"#">> \o Format02x(r) \o Format02x(g) \o Format02x(b)

\* ------------------------------------------------------------------------
\* The strategies.  `self` is the record of the attributes the constructors
\* set; each body below is one pass of a generate_colors loop, for index i,
\* and gives what it passes to hsl_to_rgb: [err, hue, saturation, lightness,
\* lookups], lookups being the indexes it used into base_hues.
\* ------------------------------------------------------------------------

\* the constant cut to two digits, 0.62
golden_ratio_two_digits == Dec(62, 100)

\* 0.618033988749895 and 0.381966011250105: the nearest floats to the literals
golden_ratio ==
  FDiv(FRound(1, BigAdd(BigMul(BigFromNat(618033988), BigFromNat(1000000)),
                        BigFromNat(749895)), 0, FALSE),
       FRound(1, BigMul(BigFromNat(1000000000), BigFromNat(1000000)), 0, FALSE))

\* the Fibonacci constructor given GoldenRatio's constant
fibonacci_ratio_copied == golden_ratio

fibonacci_ratio ==
  FDiv(FRound(1, BigAdd(BigMul(BigFromNat(381966011), BigFromNat(1000000)),
                        BigFromNat(250105)), 0, FALSE),
       FRound(1, BigMul(BigFromNat(1000000000), BigFromNat(1000000)), 0, FALSE))

base_hues == <<0, 60, 120, 180, 240, 300>>

base_hue == 200

end_hue == 300

\* The attributes after __init__, of one instance of each class
Constructed ==
  [golden_ratio |-> golden_ratio, fibonacci_ratio |-> fibonacci_ratio,
   base_hues |-> base_hues, base_hue |-> base_hue, end_hue |-> end_hue]

Passed(hue, saturation, lightness, lookups) ==
  [err |-> "none", hue |-> hue, saturation |-> saturation,
   lightness |-> lightness, lookups |-> lookups]

Raised(err, lookups) ==
  [err |-> err, hue |-> F0, saturation |-> F0, lightness |-> F0, lookups |-> lookups]

\* list[k]: Python takes -len <= k < len and raises IndexError otherwise
InRange(list, k) == -Len(list) <= k /\ k < Len(list)
ListGet(list, k) == IF k < 0 THEN list[Len(list) + k + 1] ELSE list[k + 1]

PyMin(a, b) == IF FLt(b, a) THEN b ELSE a
PyMax(a, b) == IF FLt(a, b) THEN b ELSE a
IntMax(a, b) == IF a < b THEN b ELSE a

GoldenRatio_body(self, i, a) ==
  LET hue == FAdd(FMul(FMod(FMul(FromInt(i), self.golden_ratio), F1), F360), a.offset)
  IN  Passed(FMod(hue, F360), a.saturation, a.lightness, <<>>)

\* Equidistant without the offset
Equidistant_body_no_offset(self, i, a) ==
  LET hue == FMul(FDiv(FromInt(i), FromInt(a.n)), F360)
  IN  Passed(FMod(hue, F360), a.saturation, a.lightness, <<>>)

\* Equidistant with the step taken as the integer 360 // n
Equidistant_body_integer_step(self, i, a) ==
  LET hue == FAdd(FromInt(i * (360 \div a.n)), a.offset)
  IN  Passed(FMod(hue, F360), a.saturation, a.lightness, <<>>)

Equidistant_body(self, i, a) ==
  LET hue == FAdd(FMul(FDiv(FromInt(i), FromInt(a.n)), F360), a.offset)
  IN  Passed(FMod(hue, F360), a.saturation, a.lightness, <<>>)

Fibonacci_body(self, i, a) ==
  LET hue == FAdd(FMul(FMod(FMul(FromInt(i), self.fibonacci_ratio), F1), F360), a.offset)
  IN  Passed(FMod(hue, F360), a.saturation, a.lightness, <<>>)

\* round() in the place of int()
base_index_rounded(i, n) == PyRound(FDiv(FromInt(i), FDiv(FromInt(n), F6)))

\* int(i / (n / 6))
base_index_of(i, n) == FTrunc(FDiv(FromInt(i), FDiv(FromInt(n), F6)))

ColorWheel_body(self, i, a) ==
  IF a.n <= 6
    THEN LET k == i % 6
         IN  IF ~InRange(self.base_hues, k) THEN Raised("IndexError", <<k>>)
             ELSE Passed(FMod(FAdd(FromInt(ListGet(self.base_hues, k)), a.offset), F360),
                         a.saturation, a.lightness, <<k>>)
    ELSE With(base_index_of(i, a.n), LAMBDA base_index :
         With(FDiv(FromInt(a.n), F6), LAMBDA seg :
           LET next_index == (base_index + 1) % 6
               ratio      == FDiv(FMod(FromInt(i), seg), seg)
               lookups    == <<base_index, next_index>>
           IN  IF ~InRange(self.base_hues, base_index) \/ ~InRange(self.base_hues, next_index)
                 THEN Raised("IndexError", lookups)
                 ELSE LET b   == ListGet(self.base_hues, base_index)
                          nb  == ListGet(self.base_hues, next_index)
                          hue == FAdd(FAdd(FromInt(b), FMul(FromInt(nb - b), ratio)), a.offset)
                      IN  Passed(FMod(hue, F360), a.saturation, a.lightness, lookups)))

\* a variant that passes the requested saturation and lightness unadjusted
Alternating_body_unclamped(self, i, a) ==
  LET is_even    == i % 2 = 0
      cold_index == IF is_even THEN i \div 2 ELSE (i - 1) \div 2
      hue_step   == FDiv(FromInt(self.end_hue - self.base_hue),
                         FromInt(IntMax(1, (a.n \div 2) - 1)))
      cold_hue   == FAdd(FromInt(self.base_hue), FMul(FromInt(cold_index), hue_step))
      hue        == IF is_even THEN FAdd(cold_hue, a.offset)
                    ELSE FMod(FAdd(FAdd(cold_hue, F180), a.offset), F360)
  IN  Passed(hue, a.saturation, a.lightness, <<>>)

Alternating_body(self, i, a) ==
  LET is_even    == i % 2 = 0
      cold_index == IF is_even THEN i \div 2 ELSE (i - 1) \div 2
      hue_step   == FDiv(FromInt(self.end_hue - self.base_hue),
                         FromInt(IntMax(1, (a.n \div 2) - 1)))
      cold_hue   == FAdd(FromInt(self.base_hue), FMul(FromInt(cold_index), hue_step))
      hue        == IF is_even THEN FAdd(cold_hue, a.offset)
                    ELSE FMod(FAdd(FAdd(cold_hue, F180), a.offset), F360)
      saturation_variation == PyMin(D0_1, FDiv(FromInt(a.n), F100))
      lightness_variation  == PyMin(D0_1, FDiv(FromInt(a.n), F100))
      adjusted_saturation ==
        PyMax(D0_3, PyMin(F1,
          FAdd(a.saturation,
               FMul(FSub(FMul(FromInt(i), D0_02), FMul(D0_01, FromInt(a.n))),
                    saturation_variation))))
      adjusted_lightness ==
        PyMax(D0_3, PyMin(D0_8,
          FAdd(a.lightness,
               FMul(FSub(FMul(FromInt(i), D0_015), FMul(D0_0075, FromInt(a.n))),
                    lightness_variation))))
  IN  Passed(hue, adjusted_saturation, adjusted_lightness, <<>>)

\* CustomColorGenerator of the tests: a user-defined ColorGenerator
Custom_body(self, i, a) ==
  LET hue == FAdd(FMod(FMul(FromInt(i), D0_3), F360), a.offset)
  IN  Passed(FMod(hue, F360), a.saturation, a.lightness, <<>>)

BuiltIn == {"GoldenRatio", "Equidistant", "Fibonacci", "ColorWheel", "Alternating"}

\* the classes that subclass ColorGenerator
ColorGenerators == BuiltIn \cup {"Custom"}

Body(class, self, i, a) ==
  CASE class = "GoldenRatio" -> GoldenRatio_body(self, i, a)
    [] class = "Equidistant" -> Equidistant_body(self, i, a)
    [] class = "Fibonacci"   -> Fibonacci_body(self, i, a)
    [] class = "ColorWheel"  -> ColorWheel_body(self, i, a)
    [] class = "Alternating" -> Alternating_body(self, i, a)
    [] class = "Custom"      -> Custom_body(self, i, a)

\* The colour of one index: the body, hsl_to_rgb, rgb_to_hex
Colour(class, self, i, a) ==
  With(Body(class, self, i, a), LAMBDA p :
    IF p.err # "none" THEN <<>>
    ELSE With(hsl_to_rgb(p.hue, p.saturation, p.lightness),
              LAMBDA rgb : rgb_to_hex(rgb[1], rgb[2], rgb[3])))

\* ------------------------------------------------------------------------
\* The state: one instance of each strategy class, at most one Color facade,
\* and the call in progress.
\* ------------------------------------------------------------------------
VARIABLES
  inst,     \* the attributes of the strategy instances
  facade,   \* Color._color_generator: the class of the wrapped instance, or "none"
  pc,       \* "idle", "loop" (in a generate_colors loop), "returned", "raised"
  op,       \* the call: "generate_colors", "generate", "hsl_to_rgb", "Color"
  class,    \* the class whose generate_colors runs (the argument, for "Color")
  fargs,    \* the arguments Color.generate received
  args,     \* the arguments generate_colors received
  i,        \* the loop index
  colors,   \* the list the loop appends to
  trace,    \* per hsl_to_rgb call: its arguments, its result, the list indexes used
  result,   \* <<v>> once v is returned, <<>> before and when an error is raised
  error,    \* the exception raised, or "none"
  memo      \* <<an earlier call and its result>>, for comparing a later call with

vars == <<inst, facade, pc, op, class, fargs, args, i, colors, trace, result, error, memo>>

NoArgs == [n |-> 0, saturation |-> F0, lightness |-> F0, offset |-> F0]

Init ==
  /\ inst = Constructed
  /\ facade = "none"
  /\ pc = "idle"
  /\ op = "none"
  /\ class = "none"
  /\ fargs = NoArgs
  /\ args = NoArgs
  /\ i = 0
  /\ colors = <<>>
  /\ trace = <<>>
  /\ result = <<>>
  /\ error = "none"
  /\ memo = <<>>

\* a call entered after the memo was taken is counted, up to two
Later == IF memo = <<>> THEN memo ELSE <<[memo[1] EXCEPT !.later = IF @ < 2 THEN @ + 1 ELSE @]>>

\* Enter with the loop starting at index 1
Enter_from_one(c, a) ==
  /\ class' = c
  /\ args' = a
  /\ i' = 1
  /\ colors' = <<>>
  /\ trace' = <<>>
  /\ result' = <<>>
  /\ memo' = Later
  /\ IF a.n <= 0
       THEN pc' = "raised" /\ error' = "ValueError"
       ELSE pc' = "loop" /\ error' = "none"
  /\ UNCHANGED <<inst, facade>>

\* Enter with the check n < 0
Enter_negative_only(c, a) ==
  /\ class' = c
  /\ args' = a
  /\ i' = 0
  /\ colors' = <<>>
  /\ trace' = <<>>
  /\ result' = <<>>
  /\ memo' = Later
  /\ IF a.n < 0
       THEN pc' = "raised" /\ error' = "ValueError"
       ELSE pc' = "loop" /\ error' = "none"
  /\ UNCHANGED <<inst, facade>>

\* Enter with the offset folded into the instance's base_hue
Enter_shifting_base(c, a) ==
  /\ class' = c
  /\ args' = a
  /\ i' = 0
  /\ colors' = <<>>
  /\ trace' = <<>>
  /\ result' = <<>>
  /\ memo' = Later
  /\ IF a.n <= 0
       THEN pc' = "raised" /\ error' = "ValueError"
       ELSE pc' = "loop" /\ error' = "none"
  /\ inst' = [inst EXCEPT !.base_hue = (@ + FTrunc(a.offset)) % 360]
  /\ UNCHANGED facade

\* The head of every generate_colors: the count check, then colors = []
Enter(c, a) ==
  /\ class' = c
  /\ args' = a
  /\ i' = 0
  /\ colors' = <<>>
  /\ trace' = <<>>
  /\ result' = <<>>
  /\ memo' = Later
  /\ IF a.n <= 0
       THEN pc' = "raised" /\ error' = "ValueError"
       ELSE pc' = "loop" /\ error' = "none"
  /\ UNCHANGED <<inst, facade>>

\* g.generate_colors(n, saturation, lightness, offset) on the instance of class c
generate_colors(c, a) ==
  /\ pc = "idle"
  /\ facade = "none"
  /\ op' = "generate_colors"
  /\ fargs' = NoArgs
  /\ Enter(c, a)

\* Delegate without the offset: the strategy's default of 0 applies
Delegate_without_offset(a) ==
  [n |-> a.n, saturation |-> a.saturation, lightness |-> a.lightness, offset |-> F0]

\* Color.generate passes its four arguments on, in order
Delegate(a) ==
  [n |-> a.n, saturation |-> a.saturation, lightness |-> a.lightness, offset |-> a.offset]

\* Color(...).generate(n, saturation, lightness, offset)
generate(a) ==
  /\ pc = "idle"
  /\ facade \in ColorGenerators
  /\ op' = "generate"
  /\ fargs' = a
  /\ Enter(facade, Delegate(a))

\* One pass of the loop of class c: the body, hsl_to_rgb, rgb_to_hex, append.
\* An exception ends the call and the list is lost.
Loop(c) ==
  /\ pc = "loop"
  /\ class = c
  /\ i < args.n
  /\ \E p \in {Body(c, inst, i, args)} :
         IF p.err # "none"
           THEN /\ pc' = "raised"
                /\ error' = p.err
                /\ trace' = Append(trace, [i |-> i, hue |-> p.hue, saturation |-> p.saturation,
                                           lightness |-> p.lightness, lookups |-> p.lookups,
                                           rgb |-> <<>>])
                /\ UNCHANGED <<i, colors>>
           ELSE \E rgb \in {hsl_to_rgb(p.hue, p.saturation, p.lightness)} :
                /\ pc' = "loop"
                /\ error' = "none"
                /\ trace' = Append(trace, [i |-> i, hue |-> p.hue, saturation |-> p.saturation,
                                           lightness |-> p.lightness, lookups |-> p.lookups,
                                           rgb |-> rgb])
                /\ colors' = Append(colors, rgb_to_hex(rgb[1], rgb[2], rgb[3]))
                /\ i' = i + 1
  /\ UNCHANGED <<inst, facade, op, class, fargs, args, result, memo>>

GoldenRatio_loop == Loop("GoldenRatio")
Equidistant_loop == Loop("Equidistant")
Fibonacci_loop   == Loop("Fibonacci")
ColorWheel_loop  == Loop("ColorWheel")
Alternating_loop == Loop("Alternating")
Custom_loop      == Loop("Custom")

\* range(n) is exhausted: return colors
Return ==
  /\ pc = "loop"
  /\ i = args.n
  /\ pc' = "returned"
  /\ result' = <<colors>>
  /\ UNCHANGED <<inst, facade, op, class, fargs, args, i, colors, trace, error, memo>>

\* hsl_to_rgb(hue, saturation, lightness), called on its own
Convert(hue, saturation, lightness) ==
  /\ pc = "idle"
  /\ facade = "none"
  /\ op' = "hsl_to_rgb"
  /\ \E rgb \in {hsl_to_rgb(hue, saturation, lightness)} :
         /\ trace' = <<[i |-> 0, hue |-> hue, saturation |-> saturation,
                        lightness |-> lightness, lookups |-> <<>>, rgb |-> rgb]>>
         /\ result' = <<rgb>>
  /\ pc' = "returned"
  /\ error' = "none"
  /\ class' = "none"
  /\ fargs' = NoArgs
  /\ args' = NoArgs
  /\ i' = 0
  /\ colors' = <<>>
  /\ UNCHANGED <<inst, facade, memo>>

\* Color(obj): the isinstance check, then the attribute is set
Color_init(obj) ==
  /\ pc = "idle"
  /\ facade = "none"
  /\ op' = "Color"
  /\ class' = obj
  /\ IF obj \notin ColorGenerators
       THEN pc' = "raised" /\ error' = "TypeError" /\ facade' = facade
       ELSE pc' = "returned" /\ error' = "none" /\ facade' = obj
  /\ fargs' = NoArgs
  /\ args' = NoArgs
  /\ i' = 0
  /\ colors' = <<>>
  /\ trace' = <<>>
  /\ result' = <<>>
  /\ UNCHANGED <<inst, memo>>

\* The caller has its value or its exception: the call is over
Release ==
  /\ pc \in {"returned", "raised"}
  /\ pc' = "idle"
  /\ op' = "none"
  /\ class' = "none"
  /\ fargs' = NoArgs
  /\ args' = NoArgs
  /\ i' = 0
  /\ colors' = <<>>
  /\ trace' = <<>>
  /\ result' = <<>>
  /\ error' = "none"
  /\ UNCHANGED <<inst, facade, memo>>

\* The caller drops its Color object
Discard ==
  /\ pc = "idle"
  /\ facade # "none"
  /\ facade' = "none"
  /\ UNCHANGED <<inst, pc, op, class, fargs, args, i, colors, trace, result, error, memo>>

\* The caller keeps a returned palette, to compare a later call with
Remember ==
  /\ pc = "returned"
  /\ op = "generate_colors"
  /\ memo = <<>>
  /\ memo' = <<[class |-> class, args |-> args, result |-> result, later |-> 0]>>
  /\ UNCHANGED <<inst, facade, pc, op, class, fargs, args, i, colors, trace, result, error>>

\* ------------------------------------------------------------------------
\* The inputs
\* ------------------------------------------------------------------------
SmallCount == 3
MaxCount == 13
WheelCount == 24
DetCount == 2
HundredsCount == 300

D0_25 == Dec(25, 100)
D0_5  == Dec(5, 10)
D0_6  == Dec(6, 10)
D0_75 == Dec(75, 100)
D1_5  == Dec(15, 10)

\* the defaults of generate_colors
Default == [saturation |-> D0_8, lightness |-> D0_6]

Vivid == [saturation |-> F1, lightness |-> D0_5]

Appearances ==
  { Default,
    Vivid,
    [saturation |-> D0_5, lightness |-> D0_25],
    [saturation |-> F0, lightness |-> D0_5],
    [saturation |-> D1_5, lightness |-> D0_5],
    [saturation |-> D0_8, lightness |-> D1_5] }

Offsets == { F0, FromInt(5), FromInt(90), F180, FromInt(-30), F360, Dec(1, 1000) }

MkArgs(n, app, offset) ==
  [n |-> n, saturation |-> app.saturation, lightness |-> app.lightness, offset |-> offset]

\* every appearance and offset with the small counts, zero and negative ones
\* included; the larger counts with two appearances and two offsets
Requests ==
  { MkArgs(n, app, o) : n \in -1..SmallCount, app \in Appearances, o \in Offsets }
    \cup { MkArgs(n, app, o) : n \in (SmallCount + 1)..MaxCount,
                               app \in {Default, Vivid}, o \in {F0, F180} }

\* still larger counts, for ColorWheel's interpolation
WheelRequests == { MkArgs(n, Default, F0) : n \in (MaxCount + 1)..WheelCount }

\* saturation and lightness far outside [0, 1], for Alternating's clamping
OutOfRange ==
  { [saturation |-> FromInt(-1), lightness |-> D0_5],
    [saturation |-> D0_5, lightness |-> FromInt(-1)],
    [saturation |-> FromInt(10), lightness |-> FromInt(10)],
    [saturation |-> Dec(-1, 2), lightness |-> D1_5] }

AlternatingRequests ==
  { MkArgs(n, app, F0) : n \in 1..MaxCount, app \in OutOfRange }

FacadeRequests ==
  { MkArgs(n, app, o) : n \in -1..SmallCount, app \in Appearances, o \in {F0, FromInt(90)} }

\* palettes of a few hundred colours, for the two irrational-step strategies
LongRequests ==
  { MkArgs(n, Default, o) : n \in {HundredsCount \div 10, HundredsCount},
                            o \in {F0, FromInt(90), FromInt(-30), Dec(1, 1000)} }

DetRequests == { MkArgs(n, Default, o) : n \in 1..DetCount, o \in {F0, FromInt(90)} }

Hues == { FromInt(60 * k) : k \in -2..7 }
          \cup { FromInt(30), FromInt(-45), Dec(3599, 10), Dec(12345, 100) }

Units == { F0, D0_25, D0_5, D0_6, D0_8, F1 }

\* what may be handed to Color(...): the strategy classes, and three objects
\* that are no ColorGenerator
Objects == ColorGenerators \cup {"str", "NoneType", "DuckTyped"}

Next ==
  \/ \E c \in ColorGenerators, a \in Requests : generate_colors(c, a)
  \/ \E a \in WheelRequests : generate_colors("ColorWheel", a)
  \/ \E a \in AlternatingRequests : generate_colors("Alternating", a)
  \/ \E a \in FacadeRequests : generate(a)
  \/ GoldenRatio_loop
  \/ Equidistant_loop
  \/ Fibonacci_loop
  \/ ColorWheel_loop
  \/ Alternating_loop
  \/ Custom_loop
  \/ Return
  \/ \E h \in Hues, s \in Units, l \in Units : Convert(h, s, l)
  \/ \E obj \in Objects : Color_init(obj)
  \/ Release
  \/ Discard

Spec == Init /\ [][Next]_vars

\* Calls in sequence on the same instances, the first palette kept
NextDet ==
  \/ \E c \in ColorGenerators, a \in DetRequests : generate_colors(c, a)
  \/ GoldenRatio_loop
  \/ Equidistant_loop
  \/ Fibonacci_loop
  \/ ColorWheel_loop
  \/ Alternating_loop
  \/ Custom_loop
  \/ Return
  \/ Remember
  \/ Release

SpecDet == Init /\ [][NextDet]_vars

\* Long palettes of GoldenRatio and Fibonacci
NextLong ==
  \/ \E c \in {"GoldenRatio", "Fibonacci"}, a \in LongRequests : generate_colors(c, a)
  \/ GoldenRatio_loop
  \/ Fibonacci_loop
  \/ Return
  \/ Release

SpecLong == Init /\ [][NextLong]_vars

\* ------------------------------------------------------------------------
\* Properties
\* ------------------------------------------------------------------------

\* 0 <= x <= 1
InUnit(x) == FLe(F0, x) /\ FLe(x, F1)

\* the returned list differs somewhere from what class c gives for arguments a
Differs(c, a) == \E k \in 1..Len(colors) : colors[k] # Colour(c, inst, k - 1, a)

HexDigitSet == { HexDigits[j] : j \in 1..16 }

\* '#' and six lowercase hexadecimal digits
HexColour(str) == Len(str) = 7 /\ str[1] = "#" /\ \A j \in 2..7 : str[j] \in HexDigitSet

Strategies == {"GoldenRatio", "Equidistant", "Fibonacci", "ColorWheel"}

\* C1: for each of the five strategies, every count >= 1, every offset and
\* every saturation and lightness, values outside [0,1] included,
\* generate_colors raises no error and returns a list of exactly count
\* elements, element i being the colour computed for index i.
C1_PaletteOfCount ==
  (op = "generate_colors" /\ class \in BuiltIn /\ args.n >= 1) =>
    /\ pc \in {"loop", "returned"}
    /\ error = "none"
    /\ Len(colors) = i
    /\ i <= args.n
    /\ pc = "returned" =>
         /\ result = <<colors>>
         /\ Len(colors) = args.n
         /\ ~Differs(class, args)

\* a call with saturation 1.5 has returned its three colours
C1_Witness ==
  /\ op = "generate_colors"
  /\ pc = "returned"
  /\ class = "Fibonacci"
  /\ args.n = 3
  /\ args.saturation = D1_5
  /\ Len(result[1]) = 3

\* C2: for every hue, negative and >= 360 included, and every saturation and
\* lightness in [0,1], hsl_to_rgb returns three integers in 0..255; so for
\* every strategy, count >= 1 and offset, each string generate_colors returns
\* is '#' followed by six lowercase hexadecimal digits.
C2_ChannelsInByteRange ==
  /\ \A k \in 1..Len(trace) :
       (InUnit(trace[k].saturation) /\ InUnit(trace[k].lightness) /\ trace[k].rgb # <<>>) =>
         \A j \in 1..3 : trace[k].rgb[j] \in 0..255
  /\ (op \in {"generate_colors", "generate"} /\ InUnit(args.saturation) /\ InUnit(args.lightness)) =>
       \A k \in 1..Len(colors) : HexColour(colors[k])

\* hsl_to_rgb(-45, 1.0, 0.5) has returned, with a channel at 255
C2_Witness ==
  /\ op = "hsl_to_rgb"
  /\ pc = "returned"
  /\ trace[1].hue = FromInt(-45)
  /\ trace[1].saturation = F1
  /\ trace[1].lightness = D0_5
  /\ result[1][1] = 255
  /\ result[1][3] \in 1..254

\* C3: for each of the five strategies, and for the Color facade wrapping any
\* of them, a call with count <= 0 ends in ValueError before any index is
\* processed: the converter is never called and no list is returned.
C3_NonPositiveCountRejected ==
  /\ (op \in {"generate_colors", "generate"} /\ class \in BuiltIn /\ args.n <= 0) =>
       (pc = "raised" /\ error = "ValueError" /\ trace = <<>> /\ result = <<>>)
  /\ (op = "generate" /\ facade \in BuiltIn /\ fargs.n <= 0) =>
       (pc = "raised" /\ error = "ValueError" /\ trace = <<>> /\ result = <<>>)

\* the facade around Alternating has raised ValueError for count = -1
C3_Witness ==
  /\ op = "generate"
  /\ facade = "Alternating"
  /\ fargs.n = -1
  /\ pc = "raised"
  /\ error = "ValueError"

\* C4: over any sequence of generate_colors calls on the same instances, a
\* call's result depends only on its arguments: a call with the arguments of
\* an earlier call returns the same sequence; and no call changes
\* golden_ratio, fibonacci_ratio, base_hues, base_hue or end_hue.
C4_Deterministic ==
  /\ inst = Constructed
  /\ (pc = "returned" /\ memo # <<>> /\ memo[1].class = class /\ memo[1].args = args) =>
       result = memo[1].result

\* the kept call, another call, and the kept call's arguments again
C4_Witness ==
  /\ pc = "returned"
  /\ memo # <<>>
  /\ memo[1].later = 2
  /\ memo[1].class = class
  /\ memo[1].args = args
  /\ class = "Alternating"
  /\ args.n = 2
  /\ result = memo[1].result

ZeroOffset(a) == [a EXCEPT !.offset = F0]

\* at least 5 degrees from every multiple of 360
ClearOffset(o) ==
  \E r \in {FMod(o, F360)} : FLe(FromInt(5), r) /\ FLe(r, FromInt(355))

\* 0.5 <= saturation <= 1 and 0.25 <= lightness <= 0.75
Saturated(a) ==
  /\ FLe(D0_5, a.saturation) /\ FLe(a.saturation, F1)
  /\ FLe(D0_25, a.lightness) /\ FLe(a.lightness, D0_75)

\* C5, as stated: for every strategy, count >= 1, saturation and lightness, the
\* palette of an offset that is not 0 mod 360 differs in at least one
\* position from the palette of offset 0.
C5_AnyOffsetChangesPalette ==
  (op = "generate_colors" /\ pc = "returned" /\ class \in BuiltIn
     /\ FMod(args.offset, F360) # F0) =>
    Differs(class, ZeroOffset(args))

\* C5, amended: with 0.5 <= saturation <= 1, 0.25 <= lightness <= 0.75 and an
\* offset at least 5 degrees from every multiple of 360, the palette differs
\* from the palette of offset 0, for every strategy and count >= 1; with
\* saturation 0 every strategy but Alternating returns the palette of
\* offset 0 whatever the offset.
C5_ClearOffsetChangesPalette ==
  (op = "generate_colors" /\ pc = "returned" /\ class \in BuiltIn) =>
    /\ (Saturated(args) /\ ClearOffset(args.offset)) => Differs(class, ZeroOffset(args))
    /\ (args.saturation = F0 /\ class # "Alternating") => ~Differs(class, ZeroOffset(args))

\* GoldenRatio with offset 90 has returned two colours, not those of offset 0
C5_Witness ==
  /\ op = "generate_colors"
  /\ pc = "returned"
  /\ class = "GoldenRatio"
  /\ args = MkArgs(2, Default, FromInt(90))
  /\ Differs(class, ZeroOffset(args))

\* C6, as stated: for every count >= 1 and fixed saturation, lightness and
\* offset, any two distinct strategies among GoldenRatio, Equidistant,
\* Fibonacci and ColorWheel return sequences that differ.
C6_StrategiesDiffer ==
  (op = "generate_colors" /\ pc = "returned" /\ class \in Strategies) =>
    \A d \in Strategies \ {class} : Differs(d, args)

\* C6, amended: with 0.5 <= saturation <= 1, 0.25 <= lightness <= 0.75 and
\* count >= 2, two distinct strategies among the four return sequences that
\* differ, except Equidistant and ColorWheel at count = 6, which return the
\* same sequence; at count = 1 all four return the same sequence.
C6_StrategiesDifferFromTwo ==
  (op = "generate_colors" /\ pc = "returned" /\ class \in Strategies) =>
    \A d \in Strategies \ {class} :
      IF args.n = 1 \/ (args.n = 6 /\ {class, d} = {"Equidistant", "ColorWheel"})
        THEN ~Differs(d, args)
        ELSE Saturated(args) => Differs(d, args)

\* Equidistant has returned six colours: ColorWheel's, and not GoldenRatio's
C6_Witness ==
  /\ op = "generate_colors"
  /\ pc = "returned"
  /\ class = "Equidistant"
  /\ args = MkArgs(6, Default, F0)
  /\ ~Differs("ColorWheel", args)
  /\ Differs("GoldenRatio", args)

\* C7: in ColorWheel's interpolation branch (count > 6, multiples of 6
\* included), for every index both base_index and next_index lie in 0..5: no
\* lookup into base_hues is out of range and no IndexError is raised.
C7_WheelIndexesInRange ==
  (op \in {"generate_colors", "generate"} /\ class = "ColorWheel" /\ args.n > 6) =>
    /\ error = "none"
    /\ pc # "raised"
    /\ \A k \in 1..Len(trace) :
         /\ Len(trace[k].lookups) = 2
         /\ trace[k].lookups[1] \in 0..5
         /\ trace[k].lookups[2] \in 0..5

\* count = 12 has returned; its last index used base_hues[5] and base_hues[0]
C7_Witness ==
  /\ op = "generate_colors"
  /\ pc = "returned"
  /\ class = "ColorWheel"
  /\ args.n = 12
  /\ trace[12].lookups = <<5, 0>>
  /\ Len(result[1]) = 12

\* (360 * i / count + offset) mod 360
ClaimedHue(i0, a) == FMod(FAdd(FDiv(FromInt(360 * i0), FromInt(a.n)), a.offset), F360)

\* the distance of two hues around the circle
CircularGap(x, y) == With(FAbs(FSub(x, y)), LAMBDA d : PyMin(d, FSub(F360, d)))

\* 1e-9 degrees
HueTolerance == Dec(1, 1000000000)

Near(x, y) == FLe(FAbs(FSub(x, y)), HueTolerance)

SixHues == [k \in 1..6 |-> FromInt(60 * (k - 1))]

SixColours ==
  << <<"#", "f", "f", "0", "0", "0", "0">>, <<"#", "f", "f", "f", "f", "0", "0">>,
     <<"#", "0", "0", "f", "f", "0", "0">>, <<"#", "0", "0", "f", "f", "f", "f">>,
     <<"#", "0", "0", "0", "0", "f", "f">>, <<"#", "f", "f", "0", "0", "f", "f">> >>

\* count = 6, offset 0, saturation 1.0, lightness 0.5: the hues 0, 60, ..., 300
\* and red, yellow, green, cyan, blue, magenta
SixExample ==
  args = MkArgs(6, Vivid, F0) =>
    /\ \A k \in 1..6 : trace[k].hue = SixHues[k]
    /\ colors = SixColours

\* C8, as stated: Equidistant gives index i the hue (360*i/count + offset) mod
\* 360, the hues are pairwise distinct and consecutive hues are exactly
\* 360/count apart; count = 6, offset 0, saturation 1.0, lightness 0.5 gives
\* the hues 0, 60, ..., 300 and #ff0000, #ffff00, #00ff00, #00ffff, #0000ff,
\* #ff00ff.
C8_EquidistantExactHues ==
  (op = "generate_colors" /\ pc = "returned" /\ class = "Equidistant") =>
    /\ \A k \in 1..args.n : trace[k].hue = ClaimedHue(k - 1, args)
    /\ \A j, k \in 1..args.n : j # k => trace[j].hue # trace[k].hue
    /\ \A k \in 1..(args.n - 1) :
         CircularGap(trace[k + 1].hue, trace[k].hue) = FDiv(F360, FromInt(args.n))
    /\ SixExample

\* C8, amended: the hue of index i is within 1e-9 degrees, around the circle,
\* of (360*i/count + offset) mod 360, the hues are pairwise distinct and
\* consecutive hues are within 1e-9 degrees of 360/count apart; the count = 6
\* example holds exactly.
C8_EquidistantHues ==
  (op = "generate_colors" /\ pc = "returned" /\ class = "Equidistant") =>
    /\ \A k \in 1..args.n :
         FLe(CircularGap(trace[k].hue, ClaimedHue(k - 1, args)), HueTolerance)
    /\ \A j, k \in 1..args.n : j # k => trace[j].hue # trace[k].hue
    /\ \A k \in 1..(args.n - 1) :
         Near(CircularGap(trace[k + 1].hue, trace[k].hue), FDiv(F360, FromInt(args.n)))
    /\ SixExample

\* the count = 6 example has returned
C8_Witness ==
  /\ op = "generate_colors"
  /\ pc = "returned"
  /\ class = "Equidistant"
  /\ args = MkArgs(6, Vivid, F0)
  /\ result = <<SixColours>>

\* the result of hsl_to_rgb(hue, saturation, lightness), where that call was made
Converted(hue, saturation, lightness, rgb) ==
  (op = "hsl_to_rgb" /\ pc = "returned" /\ trace[1].hue = hue
     /\ trace[1].saturation = saturation /\ trace[1].lightness = lightness) =>
    result = <<rgb>>

\* C9: hsl_to_rgb(0, 1.0, 0.5) = (255, 0, 0), hsl_to_rgb(120, 1.0, 0.5) =
\* (0, 255, 0), hsl_to_rgb(240, 1.0, 0.5) = (0, 0, 255) and
\* hsl_to_rgb(0, 0.0, 0.5) = (128, 128, 128): 127.5 rounds to 128.
C9_ReferenceValues ==
  /\ Converted(F0, F1, D0_5, <<255, 0, 0>>)
  /\ Converted(F120, F1, D0_5, <<0, 255, 0>>)
  /\ Converted(F240, F1, D0_5, <<0, 0, 255>>)
  /\ Converted(F0, F0, D0_5, <<128, 128, 128>>)

\* hsl_to_rgb(0, 0.0, 0.5) has returned (128, 128, 128)
C9_Witness ==
  /\ op = "hsl_to_rgb"
  /\ pc = "returned"
  /\ trace[1].hue = F0
  /\ trace[1].saturation = F0
  /\ trace[1].lightness = D0_5
  /\ result = << <<128, 128, 128>> >>

\* C10: for every ColorGenerator g, built-in or user-defined, and every (n,
\* saturation, lightness, offset), Color(g).generate returns what
\* g.generate_colors returns for them and raises the error it raises; Color of
\* an object that is no ColorGenerator raises TypeError and no facade exists.
C10_FacadePreservesBehaviour ==
  /\ facade \in ColorGenerators \cup {"none"}
  /\ (op = "Color" /\ class \notin ColorGenerators) =>
       (pc = "raised" /\ error = "TypeError" /\ facade = "none")
  /\ (op = "Color" /\ class \in ColorGenerators) =>
       (pc = "returned" /\ error = "none" /\ facade = class)
  /\ op = "generate" =>
       /\ class = facade
       /\ args = fargs
       /\ fargs.n <= 0 => (pc = "raised" /\ error = "ValueError" /\ result = <<>>)
       /\ fargs.n >= 1 => (pc \in {"loop", "returned"} /\ error = "none")
       /\ pc = "returned" =>
            /\ result = <<colors>>
            /\ Len(colors) = fargs.n
            /\ ~Differs(facade, fargs)

\* the facade around the user-defined generator has returned three colours
C10_Witness ==
  /\ op = "generate"
  /\ pc = "returned"
  /\ facade = "Custom"
  /\ fargs = MkArgs(3, Default, FromInt(90))
  /\ Len(result[1]) = 3
  /\ ~Differs("Custom", fargs)

\* C11: for every strategy, count >= 1, index and offset, the hue a strategy
\* passes to hsl_to_rgb is already in [0, 360) at the call: it is normalised
\* after the offset is added.
C11_HuesNormalised ==
  (op \in {"generate_colors", "generate"} /\ class \in BuiltIn) =>
    \A k \in 1..Len(trace) :
      trace[k].rgb # <<>> => (FLe(F0, trace[k].hue) /\ FLt(trace[k].hue, F360))

\* C12: in Alternating with offset 0, for every count >= 1 the hue of every
\* even index, base_hue + (i div 2) * hue_step, lies in the cool range
\* [200, 300].
C12_EvenHuesInCoolRange ==
  (op \in {"generate_colors", "generate"} /\ class = "Alternating" /\ args.offset = F0) =>
    \A k \in 1..Len(trace) :
      (trace[k].i % 2 = 0) =>
        (FLe(FromInt(inst.base_hue), trace[k].hue) /\ FLe(trace[k].hue, FromInt(inst.end_hue)))

\* C13: for every count from 1 up, with offset 0 and the default saturation
\* 0.8 and lightness 0.6, ColorWheel gives the indices pairwise distinct hues
\* and returns pairwise distinct colours, for count <= 6 and for count > 6.
C13_WheelColoursDistinct ==
  (op = "generate_colors" /\ pc = "returned" /\ class = "ColorWheel"
     /\ args.offset = F0 /\ args.saturation = D0_8 /\ args.lightness = D0_6) =>
    \A j, k \in 1..args.n :
      j < k => (trace[j].hue # trace[k].hue /\ colors[j] # colors[k])

\* C14: in Alternating, for every count >= 1, every index and every
\* requested saturation and lightness, values outside [0,1] included, the
\* values passed to hsl_to_rgb are the adjusted ones, with
\* 0.3 <= adjusted_saturation <= 1.0 and 0.3 <= adjusted_lightness <= 0.8; so
\* every colour returned has its three channels in 0..255 and is a 7-character
\* hex string.
C14_AlternatingClamped ==
  (op \in {"generate_colors", "generate"} /\ class = "Alternating") =>
    /\ Len(colors) = Len(trace)
    /\ \A k \in 1..Len(trace) :
         /\ trace[k].saturation = Alternating_body(inst, k - 1, args).saturation
         /\ trace[k].lightness = Alternating_body(inst, k - 1, args).lightness
         /\ FLe(D0_3, trace[k].saturation) /\ FLe(trace[k].saturation, F1)
         /\ FLe(D0_3, trace[k].lightness) /\ FLe(trace[k].lightness, D0_8)
         /\ \A j \in 1..3 : trace[k].rgb[j] \in 0..255
         /\ HexColour(colors[k])

\* Alternating has returned a palette for saturation 10 and lightness 10,
\* having passed the clamped 1.0 and 0.8
C14_Witness ==
  /\ op = "generate_colors"
  /\ pc = "returned"
  /\ class = "Alternating"
  /\ args.n = MaxCount
  /\ Len(colors) = MaxCount
  /\ args.saturation = FromInt(10)
  /\ args.lightness = FromInt(10)
  /\ trace[1].saturation = F1
  /\ trace[1].lightness = D0_8

\* C15: for GoldenRatio and Fibonacci, with any fixed offset, the hues computed
\* for the indices in [0, count) are pairwise distinct for every count up to a
\* few hundred: no two indices of one palette receive the same exact hue.
C15_LongPaletteHuesDistinct ==
  (op = "generate_colors" /\ class \in {"GoldenRatio", "Fibonacci"}) =>
    \A j, k \in 1..Len(trace) : j < k => trace[j].hue # trace[k].hue

\* GoldenRatio has returned HundredsCount colours for offset 90, each index
\* having passed its own hue
C15_Witness ==
  /\ op = "generate_colors"
  /\ pc = "returned"
  /\ class = "GoldenRatio"
  /\ args = MkArgs(HundredsCount, Default, FromInt(90))
  /\ Len(trace) = HundredsCount
  /\ Cardinality({ trace[k].hue : k \in 1..Len(trace) }) = HundredsCount
====
